---- MODULE Spec2Model ----
(***************************************************************************)
(* frontend-pattern-enforcer: the project analyzer (analyze_project.py),   *)
(* the compliance checker (check_compliance.py) and the markdown renderer  *)
(* (generate_report.py) as three state machines over one set of variables. *)
(*                                                                         *)
(* Text that the code searches (file names, paths, style properties and    *)
(* values, declarations, import targets) is a sequence of one-character    *)
(* strings, so that `in`, startswith, split and the regular expressions    *)
(* are computed character by character.  Labels and messages that the code *)
(* only compares or emits are TLA+ strings.                                *)
(***************************************************************************)
EXTENDS Integers, Sequences, FiniteSets, TLC

VARIABLES
    \* check_compliance.py
    patterns,   \* ComplianceChecker.patterns: the loaded analysis JSON
    disk,       \* the candidate component file present on disk
    result,     \* the value returned by the last check_component call
    ran,        \* the checks the last check_component call executed
    \* generate_report.py
    data,       \* the analysis JSON that generate_markdown_report loads
    now,        \* the wall clock, in ticks
    written,    \* the markdown files written so far, by output path
    \* analyze_project.py
    tree,       \* the files of the project, in discovery order
    pc,         \* the step analyze() is to run next
    analysis    \* FrontendAnalyzer.patterns

checkVars == <<patterns, disk, result, ran>>
renderVars == <<data, now, written>>
analyzeVars == <<tree, pc, analysis>>
vars == <<checkVars, renderVars, analyzeVars>>

\* the bounds of the model
MaxDecls == 8       \* declarations in a candidate component
MaxMore == 5        \* entries of a token category beyond its display limit
MaxClock == 2       \* clock ticks a behaviour spans
TicksPerSecond == 2 \* clock ticks in one second of wall-clock time
MaxFiles == 3       \* files in a project tree

---------------------------------------------------------------------------
(* Python str operations on character sequences.                           *)

UpperChars == <<"A","B","C","D","E","F","G","H","I","J","K","L","M","N","O","P","Q","R","S","T","U","V","W","X","Y","Z">>
LowerChars == <<"a","b","c","d","e","f","g","h","i","j","k","l","m","n","o","p","q","r","s","t","u","v","w","x","y","z">>
DigitChars == {"0","1","2","3","4","5","6","7","8","9"}
HexChars == DigitChars \cup {"a","b","c","d","e","f","A","B","C","D","E","F"}

Range(s) == {s[i] : i \in DOMAIN s}

\* c.isupper() / c.islower() for one character
CharIsUpper(c) == c \in Range(UpperChars)
CharIsLower(c) == c \in Range(LowerChars)

\* s.isupper() of the first character, guarded by the string being non-empty
FirstIsUpper(s) == Len(s) > 0 /\ CharIsUpper(s[1])

\* s.islower(): at least one cased character and no uppercase one
StrIsLower(s) ==
    /\ \E i \in DOMAIN s : CharIsLower(s[i])
    /\ \A i \in DOMAIN s : ~CharIsUpper(s[i])

\* s.lower()
LowerOf ==
    [c \in Range(UpperChars) |-> LowerChars[CHOOSE i \in DOMAIN UpperChars : UpperChars[i] = c]]
CharLower(c) == IF CharIsUpper(c) THEN LowerOf[c] ELSE c
StrLower(s) == CHOOSE l \in {[i \in DOMAIN t |-> CharLower(t[i])] : t \in {s}} : TRUE

\* k in s
Contains(s, k) ==
    \E t \in {s} : \E i \in 1..(Len(t) - Len(k) + 1) : SubSeq(t, i, i + Len(k) - 1) = k

StartsWith(s, k) == Len(k) <= Len(s) /\ SubSeq(s, 1, Len(k)) = k
EndsWith(s, k) == Len(k) <= Len(s) /\ SubSeq(s, Len(s) - Len(k) + 1, Len(s)) = k

\* s.rfind(c): the last index of character c, 0 when absent
RFind(s, c) ==
    IF \E i \in DOMAIN s : s[i] = c
    THEN CHOOSE i \in DOMAIN s : s[i] = c /\ \A j \in (i+1)..Len(s) : s[j] # c
    ELSE 0

\* s.strip()
Strip(s) ==
    LET keep == {i \in DOMAIN s : s[i] # " "}
    IN  IF keep = {} THEN <<>>
        ELSE LET lo == CHOOSE i \in keep : \A j \in keep : i <= j
                 hi == CHOOSE i \in keep : \A j \in keep : j <= i
             IN  SubSeq(s, lo, hi)

\* s.split(':')[-1]
AfterLastColon(s) == SubSeq(s, RFind(s, ":") + 1, Len(s))

\* the number of leading characters of s that lie in set cs
LeadingIn(s, cs) ==
    IF \A i \in DOMAIN s : s[i] \in cs THEN Len(s)
    ELSE (CHOOSE i \in DOMAIN s : s[i] \notin cs /\ \A j \in 1..(i-1) : s[j] \in cs) - 1

Min(a, b) == IF a <= b THEN a ELSE b
Max(a, b) == IF a >= b THEN a ELSE b

MapSeq(s, F(_)) == [i \in DOMAIN s |-> F(s[i])]
CountIf(s, P(_)) == Cardinality({i \in DOMAIN s : P(s[i])})
Replicate(n, x) == [i \in 1..n |-> x]

\* dict.get(key, default)
Get(d, key, default) == IF key \in DOMAIN d THEN d[key] ELSE default
None == "None"

---------------------------------------------------------------------------
(* pathlib: Path(p).name, .suffix, .stem                                   *)

PathName(p) == SubSeq(p, RFind(p, "/") + 1, Len(p))
PathSuffix(p) ==
    LET name == PathName(p)
        i == RFind(name, ".")
    IN  IF 1 < i /\ i < Len(name) THEN SubSeq(name, i, Len(name)) ELSE <<>>
PathStem(p) ==
    LET name == PathName(p)
        i == RFind(name, ".")
    IN  IF 1 < i /\ i < Len(name) THEN SubSeq(name, 1, i - 1) ELSE name

---------------------------------------------------------------------------
(* File contents.  A text is a record: decls, the `property: value`        *)
(* declarations in textual order ([prop, value, semi], semi telling        *)
(* whether a `;` ends the value; a custom property `--name: value;` is a   *)
(* declaration whose property starts with `--`); marks, the fixed          *)
(* substrings the code tests with `in`; imports, the targets of the        *)
(* `import ... from '<target>'` statements in textual order.               *)

Decl(prop, value, semi) == [prop |-> prop, value |-> value, semi |-> semi]

Text(decls, marks, imports) == [decls |-> decls, marks |-> marks, imports |-> imports]

\* the group of `(#[0-9a-fA-F]{3,8}|rgba?\([^)]+\))` at the start of a value,
\* <<>> when the value does not match
CheckerColorGroup(v) ==
    LET hex == IF Len(v) > 0 /\ v[1] = "#" THEN LeadingIn(Tail(v), HexChars) ELSE 0
        open == IF StartsWith(v, <<"r","g","b","a","(">>) THEN 5
                ELSE IF StartsWith(v, <<"r","g","b","(">>) THEN 4 ELSE 0
        close == IF open > 0 /\ \E i \in (open + 2)..Len(v) : v[i] = ")"
                 THEN CHOOSE i \in (open + 2)..Len(v) :
                        v[i] = ")" /\ \A j \in (open + 1)..(i - 1) : v[j] # ")"
                 ELSE 0
    IN  IF hex >= 3 THEN SubSeq(v, 1, 1 + Min(hex, 8))
        ELSE IF open > 0 /\ close > 0 THEN SubSeq(v, 1, close)
        ELSE <<>>

\* the group of `(\d+px)` at the start of a value, <<>> when it does not match
CheckerRadiusGroup(v) ==
    LET d == LeadingIn(v, DigitChars)
    IN  IF d >= 1 /\ d + 2 <= Len(v) /\ SubSeq(v, d + 1, d + 2) = <<"p","x">> THEN SubSeq(v, 1, d + 2) ELSE <<>>

\* re.findall(r'(?:color|background|bg|border):\s*(#...|rgba?\(...\))', content)
CheckerColorProps == {<<"c","o","l","o","r">>, <<"b","a","c","k","g","r","o","u","n","d">>, <<"b","g">>, <<"b","o","r","d","e","r">>}
HardcodedColors(content) ==
    LET hit(d) == /\ \E k \in CheckerColorProps : EndsWith(d.prop, k)
                  /\ CheckerColorGroup(d.value) # <<>>
        group(d) == CheckerColorGroup(d.value)
    IN  MapSeq(SelectSeq(content.decls, hit), group)

\* re.findall(r'box-shadow:\s*([^;]+);', content)
HardcodedShadows(content) ==
    LET hit(d) == EndsWith(d.prop, <<"b","o","x","-","s","h","a","d","o","w">>) /\ d.semi /\ Len(d.value) > 0
        group(d) == d.value
    IN  MapSeq(SelectSeq(content.decls, hit), group)

\* re.findall(r'border-radius:\s*(\d+px)', content)
HardcodedRadius(content) ==
    LET hit(d) == EndsWith(d.prop, <<"b","o","r","d","e","r","-","r","a","d","i","u","s">>) /\ CheckerRadiusGroup(d.value) # <<>>
        group(d) == CheckerRadiusGroup(d.value)
    IN  MapSeq(SelectSeq(content.decls, hit), group)

\* c.split(':')[-1].strip() if ':' in c else c
TokenValue(c) == IF Contains(c, <<":">>) THEN Strip(AfterLastColon(c)) ELSE c

---------------------------------------------------------------------------
(* check_compliance.py: ComplianceChecker                                  *)

Warning(msg, value) == [msg |-> msg, value |-> value]

_check_naming(pat, filename) ==
    LET most_common == Get(pat.naming_conventions, "most_common_file", None)
        is_kebab == Contains(filename, <<"-">>)
        is_snake == Contains(filename, <<"_">>)
        is_pascal == FirstIsUpper(filename)
    IN  IF most_common = None \/ most_common = "" THEN <<>>
        ELSE IF most_common = "kebab-case" /\ ~is_kebab
        THEN <<"File should use kebab-case naming (project standard)">>
        ELSE IF most_common = "PascalCase" /\ ~is_pascal
        THEN <<"File should use PascalCase naming (project standard)">>
        ELSE IF most_common = "snake_case" /\ ~is_snake
        THEN <<"File should use snake_case naming (project standard)">>
        ELSE <<>>

\* the warnings with one warning for each shadow found
WarnEveryShadow(pat, content) ==
    LET project_colors == Get(pat.design_tokens, "colors", <<>>)
        known_colors == {TokenValue(project_colors[i]) : i \in DOMAIN project_colors}
        new_color(c) == c \notin known_colors
        color_warning(c) == Warning("Hardcoded color - consider using design token", c)
        project_radii == Get(pat.design_tokens, "border_radius", <<>>)
        known_radii == {TokenValue(project_radii[i]) : i \in DOMAIN project_radii}
        new_radius(r) == r \notin known_radii
        radius_warning(r) == Warning("Custom border-radius - consider using design token", r)
    IN  MapSeq(SelectSeq(HardcodedColors(content), new_color), color_warning)
        \o [k \in DOMAIN HardcodedShadows(content) |->
                Warning("Custom box-shadow detected - consider using design token", <<>>)]
        \o MapSeq(SelectSeq(HardcodedRadius(content), new_radius), radius_warning)

_check_design_tokens(pat, content) ==
    LET project_colors == Get(pat.design_tokens, "colors", <<>>)
        known_colors == {TokenValue(project_colors[i]) : i \in DOMAIN project_colors}
        new_color(c) == c \notin known_colors
        color_warning(c) == Warning("Hardcoded color - consider using design token", c)
        project_radii == Get(pat.design_tokens, "border_radius", <<>>)
        known_radii == {TokenValue(project_radii[i]) : i \in DOMAIN project_radii}
        new_radius(r) == r \notin known_radii
        radius_warning(r) == Warning("Custom border-radius - consider using design token", r)
    IN  MapSeq(SelectSeq(HardcodedColors(content), new_color), color_warning)
        \o (IF HardcodedShadows(content) # <<>>
            THEN <<Warning("Custom box-shadow detected - consider using design token", <<>>)>>
            ELSE <<>>)
        \o MapSeq(SelectSeq(HardcodedRadius(content), new_radius), radius_warning)

\* count / len(common_patterns) >= 0.7
UsageAtLeast(count, total) == 10 * count >= 7 * total

\* count / len(common_patterns) > 0.7
UsageAbove(count, total) == 10 * count > 7 * total

_check_component_structure(pat, content, file_extension) ==
    LET common_patterns == pat.component_patterns
        total == Len(common_patterns)
        ts(p) == Get(p, "has_typescript", FALSE)
        props(p) == Get(p, "has_props_interface", FALSE)
        dflt(p) == Get(p, "exports_default", FALSE)
    IN  IF total = 0 THEN <<>>
        ELSE (IF /\ UsageAbove(CountIf(common_patterns, ts), total)
                 /\ file_extension \notin {<<".","t","s","x">>, <<".","t","s">>}
              THEN <<"Most components use TypeScript - consider using .tsx/.ts">>
              ELSE <<>>)
          \o (IF /\ UsageAbove(CountIf(common_patterns, props), total)
                 /\ ~("interface Props" \in content.marks \/ "type Props" \in content.marks)
              THEN <<"Most components define Props interface/type - consider adding one">>
              ELSE <<>>)
          \o (IF /\ UsageAbove(CountIf(common_patterns, dflt), total)
                 /\ "export default" \notin content.marks
              THEN <<"Most components use default export">>
              ELSE <<>>)

_check_imports(pat, content) ==
    LET import_patterns == Get(pat, "import_patterns", <<>>)
        is_alias(imp) == StartsWith(imp, <<"@","/">>)
        is_relative(imp) == StartsWith(imp, <<".">>)
        alias_count == CountIf(content.imports, is_alias)
        relative_count == CountIf(content.imports, is_relative)
        project_alias == Len(Get(import_patterns, "alias", <<>>))
        project_relative == Len(Get(import_patterns, "relative", <<>>))
    IN  IF project_alias > project_relative /\ relative_count > alias_count
        THEN <<"Project prefers path aliases (@/) over relative imports">>
        ELSE IF project_relative > project_alias /\ alias_count > relative_count
        THEN <<"Project prefers relative imports over path aliases">>
        ELSE <<>>

\* the score without the floor at 0
ScoreNotFloored(issues, warnings, suggestions) ==
    100 - Len(issues) * 20 - Len(warnings) * 10 - Len(suggestions) * 5

_calculate_score(issues, warnings, suggestions) ==
    LET score == 100 - Len(issues) * 20 - Len(warnings) * 10 - Len(suggestions) * 5
    IN  Max(0, score)

\* the report with a compliant flag that warnings clear as well
ReportStrictCompliant(component_path, issues, warnings, suggestions) ==
    [file |-> component_path,
     compliant |-> Len(issues) = 0 /\ Len(warnings) = 0,
     issues |-> issues,
     warnings |-> warnings,
     suggestions |-> suggestions,
     score |-> _calculate_score(issues, warnings, suggestions)]

\* the report dict of lines 49-56
ComplianceReport(component_path, issues, warnings, suggestions) ==
    [file |-> component_path,
     compliant |-> Len(issues) = 0,
     issues |-> issues,
     warnings |-> warnings,
     suggestions |-> suggestions,
     score |-> _calculate_score(issues, warnings, suggestions)]

ErrorResult == [error |-> "File not found"]

\* component_file.exists(), component_file.read_text(): the disk holds one file
Exists(path) == path = disk.path

\* a missing file reported as an issue of an ordinary report
CheckMissingAsIssue(component_path) ==
    /\ IF ~Exists(component_path)
       THEN /\ result' = ComplianceReport(component_path, <<"File not found">>, <<>>, <<>>)
            /\ ran' = {}
       ELSE LET content == disk.content
                filename == PathStem(component_path)
                issues == _check_naming(patterns, filename)
                warnings == _check_design_tokens(patterns, content)
                suggestions ==
                    _check_component_structure(patterns, content, PathSuffix(component_path))
                    \o _check_imports(patterns, content)
            IN  /\ result' = ComplianceReport(component_path, issues, warnings, suggestions)
                /\ ran' = {"naming", "design_tokens", "component_structure", "imports"}
    /\ UNCHANGED <<patterns, disk, renderVars, analyzeVars>>

check_component(component_path) ==
    /\ IF ~Exists(component_path)
       THEN /\ result' = ErrorResult
            /\ ran' = {}
       ELSE LET content == disk.content
                filename == PathStem(component_path)
                issues == _check_naming(patterns, filename)
                warnings == _check_design_tokens(patterns, content)
                suggestions ==
                    _check_component_structure(patterns, content, PathSuffix(component_path))
                    \o _check_imports(patterns, content)
            IN  /\ result' = ComplianceReport(component_path, issues, warnings, suggestions)
                /\ ran' = {"naming", "design_tokens", "component_structure", "imports"}
    /\ UNCHANGED <<patterns, disk, renderVars, analyzeVars>>

---------------------------------------------------------------------------
(* generate_report.py: generate_markdown_report.  md_content is kept as    *)
(* the list of its lines; the file written is their join with a newline.   *)
(* Tokens, paths and labels are only copied into the lines, so here they   *)
(* are TLA+ strings.  A backquote of the output is written ' and the       *)
(* pictographs of the headings are left out.                               *)

ColorsShown == 15
ShadowsShown == 10
RadiusShown == 10
SpacingShown == 10
PathsShown == 5

\* s[:n]
Take(s, n) == SubSeq(s, 1, Min(n, Len(s)))

\* s.replace(old, new)
RECURSIVE StrReplace(_, _, _)
StrReplace(s, old, new) ==
    IF Len(s) = 0 THEN <<>>
    ELSE IF StartsWith(s, old)
    THEN new \o StrReplace(SubSeq(s, Len(old) + 1, Len(s)), old, new)
    ELSE <<Head(s)>> \o StrReplace(Tail(s), old, new)

\* a time stamp that keeps the fraction of the second
StrftimeTicks(t) == ToString(t)

\* datetime.now().strftime('%Y-%m-%d %H:%M:%S'): the clock cut to whole seconds
Strftime(t) == ToString(t \div TicksPerSecond)

\* f"{count/total*100:.0f}": the nearest whole percent, a half going to the even one
Percent(count, total) ==
    LET q == (100 * count) \div total
        r == (100 * count) % total
        up == 2 * r > total \/ (2 * r = total /\ q % 2 = 1)
    IN  ToString(IF up THEN q + 1 ELSE q)

\* a block that counts the entries beyond the limit from the limit on
TokenSectionFromLimit(title, entries, shown) ==
    IF Len(entries) = 0 THEN <<>>
    ELSE <<title, "'''css">>
         \o Take(entries, shown)
         \o (IF Len(entries) >= shown
             THEN <<"... and " \o ToString(Len(entries) - shown) \o " more">>
             ELSE <<>>)
         \o <<"'''\n">>

\* one of the four blocks of lines 32-66, each guarded by tokens.get(<category>)
TokenSection(title, entries, shown) ==
    IF Len(entries) = 0 THEN <<>>
    ELSE <<title, "'''css">>
         \o Take(entries, shown)
         \o (IF Len(entries) > shown
             THEN <<"... and " \o ToString(Len(entries) - shown) \o " more">>
             ELSE <<>>)
         \o <<"'''\n">>

DesignTokenLines(tokens) ==
    TokenSection("### Colors", Get(tokens, "colors", <<>>), ColorsShown)
    \o TokenSection("### Box Shadows", Get(tokens, "shadows", <<>>), ShadowsShown)
    \o TokenSection("### Border Radius", Get(tokens, "border_radius", <<>>), RadiusShown)
    \o TokenSection("### Spacing", Get(tokens, "spacing", <<>>), SpacingShown)

\* folder_type.title() on the role labels of the analyzer
Title(folder_type) ==
    CASE folder_type = "components" -> "Components"
      [] folder_type = "pages" -> "Pages"
      [] folder_type = "utils" -> "Utils"
      [] folder_type = "hooks" -> "Hooks"
      [] folder_type = "styles" -> "Styles"
      [] folder_type = "lib" -> "Lib"
      [] folder_type = "services" -> "Services"
      [] folder_type = "contexts" -> "Contexts"
      [] folder_type = "types" -> "Types"

\* the loop over structure.items() of lines 73-79; structure is the
\* list of the JSON object's items in file order
RECURSIVE FolderLines(_)
FolderLines(structure) ==
    IF Len(structure) = 0 THEN <<>>
    ELSE LET folder_type == Head(structure)[1]
             paths == Head(structure)[2]
             bullet(path) == "- '" \o path \o "'"
         IN  <<"### " \o Title(folder_type)>>
             \o MapSeq(Take(paths, PathsShown), bullet)
             \o (IF Len(paths) > PathsShown
                 THEN <<"- ... and " \o ToString(Len(paths) - PathsShown) \o " more">>
                 ELSE <<>>)
             \o <<"">>
             \o FolderLines(Tail(structure))

ComponentLines(component_patterns) ==
    LET total == Len(component_patterns)
        ts(p) == Get(p, "has_typescript", FALSE)
        props(p) == Get(p, "has_props_interface", FALSE)
        hooks(p) == Get(p, "uses_hooks", FALSE)
        dflt(p) == Get(p, "exports_default", FALSE)
        stat(label, count) ==
            label \o ToString(count) \o "/" \o ToString(total)
            \o " (" \o Percent(count, total) \o "%)"
    IN  IF total = 0 THEN <<"*No component patterns analyzed*\n">>
        ELSE <<"Analyzed " \o ToString(total) \o " components:\n",
               stat("- **TypeScript usage:** ", CountIf(component_patterns, ts)),
               stat("- **Props interface defined:** ", CountIf(component_patterns, props)),
               stat("- **Using React hooks:** ", CountIf(component_patterns, hooks)),
               stat("- **Default exports:** ", CountIf(component_patterns, dflt)),
               "">>

NamingLines(naming) ==
    LET most_common == Get(naming, "most_common_file", None)
    IN  IF most_common = None \/ most_common = ""
        THEN <<"*No clear naming pattern detected*\n">>
        ELSE <<"**Preferred file naming:** '" \o most_common \o "'\n">>

ImportLines(imports) ==
    LET alias_count == Len(Get(imports, "alias", <<>>))
        relative_count == Len(Get(imports, "relative", <<>>))
        absolute_count == Len(Get(imports, "absolute", <<>>))
        total_imports == alias_count + relative_count + absolute_count
        stat(label, count) ==
            label \o ToString(count) \o " (" \o Percent(count, total_imports) \o "%)"
    IN  IF total_imports > 0
        THEN <<stat("- **Path aliases (@/):** ", alias_count),
               stat("- **Relative imports (./):** ", relative_count),
               stat("- **Absolute imports:** ", absolute_count),
               "">>
             \o (IF alias_count > relative_count
                 THEN <<"**Recommendation:** Project prefers path aliases (@/)\n">>
                 ELSE IF relative_count > alias_count
                 THEN <<"**Recommendation:** Project prefers relative imports\n">>
                 ELSE <<>>)
        ELSE <<"*No import patterns detected*\n">>

\* lines 23-25
HeaderLines(t) ==
    <<"# Frontend Project Pattern Analysis",
      "\n**Generated:** " \o Strftime(t) \o "\n",
      "---\n">>

\* md_content of lines 20-135 for the loaded JSON and the clock reading t
MarkdownContent(json, t) ==
    HeaderLines(t)
    \o <<"## Design Tokens\n">>
    \o DesignTokenLines(Get(json, "design_tokens", <<>>))
    \o <<"## Folder Structure\n">>
    \o (IF Len(Get(json, "folder_structure", <<>>)) > 0
        THEN FolderLines(Get(json, "folder_structure", <<>>))
        ELSE <<"*No specific folder patterns detected*\n">>)
    \o <<"## Component Patterns\n">>
    \o ComponentLines(Get(json, "component_patterns", <<>>))
    \o <<"## Naming Conventions\n">>
    \o NamingLines(Get(json, "naming_conventions", <<>>))
    \o <<"## Import Patterns\n">>
    \o ImportLines(Get(json, "import_patterns", <<>>))

AnalysisFile == <<"p","r","o","j","e","c","t","_","a","n","a","l","y","s","i","s",".","j","s","o","n">>

\* output_file = analysis_file.replace('.json', '.md') when no output file is given
OutputFile(analysis_file, output_file) ==
    IF output_file = <<>> THEN StrReplace(analysis_file, <<".","j","s","o","n">>, <<".","m","d">>) ELSE output_file

\* written maps each output path written so far to the lines written and to the
\* clock reading of the call that wrote them
generate_markdown_report(analysis_file, output_file) ==
    LET out == OutputFile(analysis_file, output_file)
        file == [at |-> now, md_content |-> MarkdownContent(data, now)]
    IN  /\ written' = [p \in DOMAIN written \cup {out} |->
                          IF p = out THEN file ELSE written[p]]
        /\ UNCHANGED <<data, now, checkVars, analyzeVars>>

Tick ==
    /\ now < MaxClock
    /\ now' = now + 1
    /\ UNCHANGED <<data, written, checkVars, analyzeVars>>

---------------------------------------------------------------------------
(* analyze_project.py: FrontendAnalyzer.  The project tree is the list of  *)
(* its files in the order rglob and os.walk discover them; each file is    *)
(* [path, content, readable], path relative to the project root and        *)
(* readable telling whether read_text succeeds.                            *)

ProjectPath == <<"/","w","o","r","k","/","s","h","o","p">>
SampleLimit == 10       \* component_files[:10]
ImportLimit == 20       \* list(rglob)[:20]

\* str(file_path)
FullPath(f) == ProjectPath \o <<"/">> \o f.path

EndsWithAny(s, ks) == \E k \in ks : EndsWith(s, k)
ContainsAny(s, ks) == \E k \in ks : Contains(s, k)

\* the files rglob('*' + ext) yields, in discovery order
RGlob(files, ext) ==
    LET hit(f) == EndsWith(PathName(f.path), ext) IN SelectSeq(files, hit)

RECURSIVE Flatten(_)
Flatten(ss) == IF Len(ss) = 0 THEN <<>> ELSE Head(ss) \o Flatten(Tail(ss))

\* the directories os.walk visits, as paths relative to the root: the root
\* itself and every ancestor directory of a file, each once, parents first
DirPrefixes(path) ==
    LET cuts == {i \in DOMAIN path : path[i] = "/"}
        nth(k) == CHOOSE i \in cuts : Cardinality({j \in cuts : j < i}) = k - 1
    IN  [k \in 1..Cardinality(cuts) |-> SubSeq(path, 1, nth(k) - 1)]

\* s without the repetitions of an earlier element
Dedup(s) ==
    LET first == {i \in DOMAIN s : \A j \in 1..(i - 1) : s[j] # s[i]}
        nth(k) == CHOOSE i \in first : Cardinality({j \in first : j < i}) = k - 1
    IN  [k \in 1..Cardinality(first) |-> s[nth(k)]]

WalkDirs(files) ==
    LET dirs(f) == DirPrefixes(f.path)
    IN  Dedup(<<<<".">>>> \o Flatten(MapSeq(files, dirs)))

FolderSkips == {<<"n","o","d","e","_","m","o","d","u","l","e","s">>, <<".","g","i","t">>, <<"d","i","s","t">>, <<"b","u","i","l","d">>, <<".","n","e","x","t">>}
FolderRoles ==
    <<"components", "pages", "utils", "hooks", "styles", "lib", "services",
      "contexts", "types">>
RoleText(role) ==
    CASE role = "components" -> <<"c","o","m","p","o","n","e","n","t","s">>
      [] role = "pages" -> <<"p","a","g","e","s">>
      [] role = "utils" -> <<"u","t","i","l","s">>
      [] role = "hooks" -> <<"h","o","o","k","s">>
      [] role = "styles" -> <<"s","t","y","l","e","s">>
      [] role = "lib" -> <<"l","i","b">>
      [] role = "services" -> <<"s","e","r","v","i","c","e","s">>
      [] role = "contexts" -> <<"c","o","n","t","e","x","t","s">>
      [] role = "types" -> <<"t","y","p","e","s">>

\* folder_structure as the list of (role, paths) items with a non-empty list
FolderStructure(files) ==
    LET kept(rel_path) == ~ContainsAny(rel_path, FolderSkips)
        walked == SelectSeq(WalkDirs(files), kept)
        item(role) ==
            LET hit(rel_path) == Contains(StrLower(rel_path), RoleText(role))
            IN  <<role, SelectSeq(walked, hit)>>
        filled(it) == Len(it[2]) > 0
    IN  SelectSeq(MapSeq(FolderRoles, item), filled)

\* the group of `(#[0-9a-fA-F]{3,8}|rgba?\([^)]+\)|hsl\([^)]+\))` at the start of
\* a value, <<>> when the value does not match
ExtractorColorGroup(v) ==
    LET hex == IF Len(v) > 0 /\ v[1] = "#" THEN LeadingIn(Tail(v), HexChars) ELSE 0
        open == IF StartsWith(v, <<"r","g","b","a","(">>) THEN 5
                ELSE IF StartsWith(v, <<"r","g","b","(">>) \/ StartsWith(v, <<"h","s","l","(">>) THEN 4 ELSE 0
        close == IF open > 0 /\ \E i \in (open + 2)..Len(v) : v[i] = ")"
                 THEN CHOOSE i \in (open + 2)..Len(v) :
                        v[i] = ")" /\ \A j \in (open + 1)..(i - 1) : v[j] # ")"
                 ELSE 0
    IN  IF hex >= 3 THEN SubSeq(v, 1, 1 + Min(hex, 8))
        ELSE IF open > 0 /\ close > 0 THEN SubSeq(v, 1, close)
        ELSE <<>>

WordChars ==
    Range(UpperChars) \cup Range(LowerChars) \cup DigitChars \cup {"_"}

\* css_var_pattern r'--[\w-]+:\s*([^;]+);' matches a declaration whose property
\* ends with `--` and one or more word characters or hyphens
IsCssVar(d) ==
    /\ d.semi /\ Len(d.value) > 0
    /\ \E i \in 1..(Len(d.prop) - 2) :
          /\ SubSeq(d.prop, i, i + 1) = <<"-","-">>
          /\ \A j \in (i + 2)..Len(d.prop) : d.prop[j] \in WordChars \cup {"-"}

\* match.group(0) of css_var_pattern: from the first `--` that starts a match
CssVarText(d) ==
    LET starts == {i \in 1..(Len(d.prop) - 2) :
                      /\ SubSeq(d.prop, i, i + 1) = <<"-","-">>
                      /\ \A j \in (i + 2)..Len(d.prop) : d.prop[j] \in WordChars \cup {"-"}}
        i == CHOOSE a \in starts : \A b \in starts : a <= b
    IN  SubSeq(d.prop, i, Len(d.prop)) \o <<":"," ">> \o d.value \o <<";">>

ExtractorColorProps == {<<"c","o","l","o","r">>, <<"b","a","c","k","g","r","o","u","n","d">>, <<"b","g">>, <<"b","o","r","d","e","r","-","c","o","l","o","r">>, <<"f","i","l","l">>, <<"s","t","r","o","k","e">>}
ExtractorShadowProps == {<<"b","o","x","-","s","h","a","d","o","w">>, <<"s","h","a","d","o","w">>}
ExtractorRadiusProps == {<<"b","o","r","d","e","r","-","r","a","d","i","u","s">>, <<"r","o","u","n","d","e","d">>}
ExtractorSpacingProps == {<<"p","a","d","d","i","n","g">>, <<"m","a","r","g","i","n">>, <<"g","a","p">>}

TokenCategories ==
    {"colors", "shadows", "border_radius", "spacing", "font_families", "font_sizes",
     "z_index"}
EmptyTokens == [c \in TokenCategories |-> {}]

AddToken(tokens, category, token) ==
    [tokens EXCEPT ![category] = tokens[category] \cup {token}]

\* f"{var_name}: {value}"
StoredVar(var_name, value) == var_name \o <<":"," ">> \o value

\* the category _categorize_css_var stores under, "" when it stores nothing
VarCategory(var_name) ==
    LET var_lower == StrLower(var_name)
    IN  IF ContainsAny(var_lower, {<<"c","o","l","o","r">>, <<"b","g">>, <<"b","a","c","k","g","r","o","u","n","d">>, <<"b","o","r","d","e","r">>, <<"t","e","x","t">>})
        THEN "colors"
        ELSE IF Contains(var_lower, <<"s","h","a","d","o","w">>) THEN "shadows"
        ELSE IF Contains(var_lower, <<"r","a","d","i","u","s">>) THEN "border_radius"
        ELSE IF ContainsAny(var_lower, {<<"s","p","a","c","i","n","g">>, <<"g","a","p">>, <<"p","a","d","d","i","n","g">>, <<"m","a","r","g","i","n">>})
        THEN "spacing"
        ELSE IF Contains(var_lower, <<"f","o","n","t","-","f","a","m","i","l","y">>) THEN "font_families"
        ELSE IF Contains(var_lower, <<"f","o","n","t","-","s","i","z","e">>) THEN "font_sizes"
        ELSE IF Contains(var_lower, <<"z","-","i","n","d","e","x">>) THEN "z_index"
        ELSE ""

_categorize_css_var(tokens, var_name, value) ==
    IF VarCategory(var_name) = "" THEN tokens
    ELSE AddToken(tokens, VarCategory(var_name), StoredVar(var_name, value))

\* the category-wise union of a set of token sets
TokenUnion(parts) ==
    CHOOSE u \in {[c \in TokenCategories |-> UNION {t[c] : t \in ts}] : ts \in {parts}} : TRUE

\* lines 122-125: self._categorize_css_var(match.group(0), match.group(1).strip())
\* for every match in one file
VarTokens(content) ==
    TokenUnion({_categorize_css_var(EmptyTokens, CssVarText(d), Strip(d.value)) :
                    d \in {e \in Range(content.decls) : IsCssVar(e)}})

\* lines 127-141: the values the four inline patterns add for one file
InlineTokens(content) ==
    LET ds == Range(content.decls)
        ended(d) == d.semi /\ Len(d.value) > 0
    IN  [c \in TokenCategories |->
            CASE c = "colors" ->
                    {ExtractorColorGroup(d.value) :
                        d \in {e \in ds : /\ EndsWithAny(e.prop, ExtractorColorProps)
                                          /\ ExtractorColorGroup(e.value) # <<>>}}
              [] c = "shadows" ->
                    {d.value : d \in {e \in ds : EndsWithAny(e.prop, ExtractorShadowProps)
                                                 /\ ended(e)}}
              [] c = "border_radius" ->
                    {d.value : d \in {e \in ds : EndsWithAny(e.prop, ExtractorRadiusProps)
                                                 /\ ended(e)}}
              [] c = "spacing" ->
                    {d.value : d \in {e \in ds : EndsWithAny(e.prop, ExtractorSpacingProps)
                                                 /\ ended(e)}}
              [] OTHER -> {}]

\* what the try block of lines 119-144 adds for one file: nothing when read_text
\* raises
FileTokens(f) ==
    IF ~f.readable THEN EmptyTokens
    ELSE TokenUnion({VarTokens(f.content), InlineTokens(f.content)})

\* the token sets after the loops of lines 114-144 over the files read
ExtractFiles(tokens, files) ==
    TokenUnion({tokens} \cup {FileTokens(f) : f \in Range(files)})

TokenExtensions ==
    <<<<".","c","s","s">>, <<".","s","c","s","s">>, <<".","t","s">>, <<".","t","s","x">>, <<".","j","s">>, <<".","j","s","x">>, <<".","c","o","n","f","i","g",".","j","s">>, <<".","c","o","n","f","i","g",".","t","s">>>>

\* the files the loops of lines 114-117 read: per extension, those rglob yields
\* whose full path does not contain node_modules
TokenFiles(files) ==
    LET kept(f) == ~Contains(FullPath(f), <<"n","o","d","e","_","m","o","d","u","l","e","s">>)
        per(ext) == SelectSeq(RGlob(files, ext), kept)
    IN  Flatten(MapSeq(TokenExtensions, per))

\* the pattern dict of lines 181-189
ComponentPattern(f) ==
    LET marks == f.content.marks
    IN  [file |-> f.path,
         has_typescript |-> PathSuffix(f.path) \in {<<".","t","s","x">>, <<".","t","s">>},
         has_props_interface |-> "interface Props" \in marks \/ "type Props" \in marks,
         uses_hooks |-> marks \cap {"useState", "useEffect", "useCallback", "useMemo"} # {},
         uses_children |-> "children" \in marks,
         exports_default |-> "export default" \in marks,
         exports_named |-> "export {" \in marks \/ "export const" \in marks]

\* lines 169-193: the first 10 component files, then those outside node_modules
\* that can be read
ComponentPatterns(files) ==
    LET per(ext) == RGlob(files, ext)
        component_files == Flatten(MapSeq(<<<<".","t","s","x">>, <<".","j","s","x">>, <<".","v","u","e">>>>, per))
        kept(f) == ~Contains(FullPath(f), <<"n","o","d","e","_","m","o","d","u","l","e","s">>) /\ f.readable
    IN  MapSeq(SelectSeq(Take(component_files, SampleLimit), kept), ComponentPattern)

\* the labels without the test of the remainder of the name
NamingLabelFirstOnly(filename) ==
    IF Contains(filename, <<"-">>) THEN "kebab-case"
    ELSE IF Contains(filename, <<"_">>) THEN "snake_case"
    ELSE IF CharIsUpper(filename[1]) THEN "PascalCase"
    ELSE IF CharIsLower(filename[1]) THEN "lowercase"
    ELSE ""

\* lines 204-211: the label appended for a file name stem, "" when none is
NamingLabel(filename) ==
    IF Contains(filename, <<"-">>) THEN "kebab-case"
    ELSE IF Contains(filename, <<"_">>) THEN "snake_case"
    ELSE IF CharIsUpper(filename[1]) THEN "PascalCase"
    ELSE IF CharIsLower(filename[1]) /\ StrIsLower(Tail(filename)) THEN "lowercase"
    ELSE ""

\* the files line 200 lets through
NamingFiles(files) ==
    LET kept(f) == ~ContainsAny(FullPath(f), {<<"n","o","d","e","_","m","o","d","u","l","e","s">>, <<".","g","i","t">>})
    IN  SelectSeq(files, kept)

FileNaming(files) ==
    LET label(f) == NamingLabel(PathStem(f.path))
        labelled(l) == l # ""
    IN  SelectSeq(MapSeq(NamingFiles(files), label), labelled)

ImportExtensions == <<<<".","t","s">>, <<".","t","s","x">>, <<".","j","s">>, <<".","j","s","x">>>>

\* the first 20 script files of the tree over all four extensions together
ImportFilesCappedInTotal(files) ==
    LET kept(f) == ~Contains(FullPath(f), <<"n","o","d","e","_","m","o","d","u","l","e","s">>) /\ f.readable
        per(ext) == RGlob(files, ext)
    IN  SelectSeq(Take(Flatten(MapSeq(ImportExtensions, per)), ImportLimit), kept)

\* the files lines 223-229 read: per extension the first 20 that rglob yields,
\* of these the ones outside node_modules that can be read
ImportFiles(files) ==
    LET kept(f) == ~Contains(FullPath(f), <<"n","o","d","e","_","m","o","d","u","l","e","s">>) /\ f.readable
        per(ext) == SelectSeq(Take(RGlob(files, ext), ImportLimit), kept)
    IN  Flatten(MapSeq(ImportExtensions, per))

ImportPatterns(files) ==
    LET targets(f) == f.content.imports
        found == Flatten(MapSeq(ImportFiles(files), targets))
        is_alias(imp) == StartsWith(imp, <<"@","/">>)
        is_relative(imp) == ~is_alias(imp) /\ StartsWith(imp, <<".">>)
        is_absolute(imp) == ~is_alias(imp) /\ ~StartsWith(imp, <<".">>)
    IN  [absolute |-> SelectSeq(found, is_absolute),
         relative |-> SelectSeq(found, is_relative),
         alias |-> SelectSeq(found, is_alias)]

\* the characters the texts use, in code point order
Ascii ==
    <<" ","!","\"","#","$","%","&","'","(",")","*","+",",","-",".","/",
      "0","1","2","3","4","5","6","7","8","9",":",";","<","=",">","?",
      "@","A","B","C","D","E","F","G","H","I","J","K","L","M","N","O",
      "P","Q","R","S","T","U","V","W","X","Y","Z","[","\\","]","^","_",
      "a","b","c","d","e","f","g","h","i","j","k","l","m","n","o",
      "p","q","r","s","t","u","v","w","x","y","z","{","|","}","~">>
OrdOf == [c \in Range(Ascii) |-> CHOOSE i \in DOMAIN Ascii : Ascii[i] = c]
Ord(c) == OrdOf[c]

\* a < b for Python strings
StrLess(a, b) ==
    \E i \in 1..(Min(Len(a), Len(b)) + 1) :
        /\ \A j \in 1..(i - 1) : a[j] = b[j]
        /\ \/ i = Len(a) + 1 /\ i <= Len(b)
           \/ i <= Len(a) /\ i <= Len(b) /\ Ord(a[i]) < Ord(b[i])

\* sorted(list(S))
Sorted(S) ==
    [k \in 1..Cardinality(S) |->
        CHOOSE x \in S : Cardinality({y \in S : StrLess(y, x)}) = k - 1]

\* file_naming.count(label)
Count(list, x) == Cardinality({i \in DOMAIN list : list[i] = x})

\* the first label recorded, whatever its count
FirstRecorded(file_naming) == {file_naming[1]}

\* the values max(set(file_naming), key=file_naming.count) can return: the first
\* label of maximal count in the iteration order of the set, an order the string
\* hashes of the run decide
MostCommon(file_naming) ==
    {l \in Range(file_naming) : \A m \in Range(file_naming) :
        Count(file_naming, m) <= Count(file_naming, l)}

InitialPatterns ==
    [design_tokens |-> EmptyTokens,
     folder_structure |-> <<>>,
     component_patterns |-> <<>>,
     naming_conventions |-> [files |-> <<>>, components |-> <<>>, variables |-> <<>>],
     import_patterns |-> <<>>,
     css_patterns |-> <<>>]

\* analyze() runs the six steps in this order
_analyze_folder_structure ==
    /\ pc = "folder_structure"
    /\ analysis' = [analysis EXCEPT !.folder_structure = FolderStructure(tree)]
    /\ pc' = "design_tokens"
    /\ UNCHANGED <<tree, checkVars, renderVars>>

_extract_design_tokens ==
    /\ pc = "design_tokens"
    /\ analysis' = [analysis EXCEPT
            !.design_tokens = ExtractFiles(analysis.design_tokens, TokenFiles(tree))]
    /\ pc' = "component_patterns"
    /\ UNCHANGED <<tree, checkVars, renderVars>>

_analyze_component_patterns ==
    /\ pc = "component_patterns"
    /\ analysis' = [analysis EXCEPT
            !.component_patterns = analysis.component_patterns \o ComponentPatterns(tree)]
    /\ pc' = "naming_conventions"
    /\ UNCHANGED <<tree, checkVars, renderVars>>

_analyze_naming_conventions ==
    /\ pc = "naming_conventions"
    /\ analysis' = [analysis EXCEPT
            !.naming_conventions.files = analysis.naming_conventions.files \o FileNaming(tree)]
    /\ pc' = "import_patterns"
    /\ UNCHANGED <<tree, checkVars, renderVars>>

_analyze_import_patterns ==
    /\ pc = "import_patterns"
    /\ analysis' = [analysis EXCEPT !.import_patterns = ImportPatterns(tree)]
    /\ pc' = "generate_report"
    /\ UNCHANGED <<tree, checkVars, renderVars>>

\* naming_conventions after lines 255-258 with the label chosen
WithMostCommon(naming, most_common) ==
    [k \in DOMAIN naming \cup {"most_common_file"} |->
        IF k = "most_common_file" THEN most_common ELSE naming[k]]

_generate_report ==
    /\ pc = "generate_report"
    /\ LET sorted == [analysis EXCEPT
                        !.design_tokens = [c \in TokenCategories |->
                                              Sorted(analysis.design_tokens[c])]]
           file_naming == analysis.naming_conventions.files
       IN  IF Len(file_naming) > 0
           THEN \E most_common \in MostCommon(file_naming) :
                    analysis' = [sorted EXCEPT
                        !.naming_conventions =
                            WithMostCommon(analysis.naming_conventions, most_common)]
           ELSE analysis' = sorted
    /\ pc' = "done"
    /\ UNCHANGED <<tree, checkVars, renderVars>>

---------------------------------------------------------------------------

---------------------------------------------------------------------------
(* Inputs of the compliance checker: the analysis JSON it loads and the    *)
(* candidate component on disk.                                            *)


NamingInputs ==
    {[components |-> <<>>]}
    \cup {[components |-> <<>>, most_common_file |-> m] :
            m \in {"kebab-case", "PascalCase", "snake_case", "lowercase"}}

DesignTokenInputs ==
    {[colors |-> <<>>, border_radius |-> <<>>],
     [colors |-> <<<<"#","3","3","6","6","9","9">>, <<"-","-","b","g",":"," ","#","f","f","f",";",":"," ","#","f","f","f">>>>,
      border_radius |-> <<<<"-","-","r","a","d","i","u","s",":"," ","4","p","x",";",":"," ","4","p","x">>, <<"8","p","x">>>>]}

\* n sampled components, the first kt typed, the first kp with Props, the first kd
\* with a default export
Samples(n, kt, kp, kd) ==
    [i \in 1..n |-> [has_typescript |-> i <= kt,
                     has_props_interface |-> i <= kp,
                     exports_default |-> i <= kd]]

ComponentPatternInputs ==
    {<<>>, Samples(SampleLimit, 8, 8, 8), Samples(SampleLimit, 8, 7, 0), Samples(3, 3, 2, 0)}

ImportPatternInputs ==
    {[alias |-> <<>>, relative |-> <<>>, absolute |-> <<>>],
     [alias |-> <<<<"@","/","l","i","b","/","a","p","i">>, <<"@","/","u","i","/","B","u","t","t","o","n">>>>, relative |-> <<<<".","/","u","t","i","l">>>>,
      absolute |-> <<<<"r","e","a","c","t">>>>],
     [alias |-> <<>>, relative |-> <<<<".","/","u","t","i","l">>, <<".",".","/","t","h","e","m","e">>>>, absolute |-> <<<<"r","e","a","c","t">>>>]}

PatternInputs ==
    {[naming_conventions |-> n, design_tokens |-> t,
      component_patterns |-> c, import_patterns |-> i] :
        n \in NamingInputs, t \in DesignTokenInputs,
        c \in ComponentPatternInputs, i \in ImportPatternInputs}

StyleSheet ==
    <<Decl(<<"c","o","l","o","r">>, <<"#","1","2","3","4","5","6">>, TRUE),
      Decl(<<"b","o","x","-","s","h","a","d","o","w">>, <<"0"," ","1","p","x"," ","2","p","x"," ","#","0","0","0">>, TRUE),
      Decl(<<"b","o","r","d","e","r","-","r","a","d","i","u","s">>, <<"1","2","p","x">>, TRUE),
      Decl(<<"b","a","c","k","g","r","o","u","n","d","-","c","o","l","o","r">>, <<"r","g","b","a","(","0",",","0",",","0",",","0",".","5",")">>, TRUE),
      Decl(<<"b","a","c","k","g","r","o","u","n","d">>, <<"#","f","f","f">>, TRUE),
      Decl(<<"b","o","r","d","e","r","-","r","a","d","i","u","s">>, <<"4","p","x">>, TRUE),
      Decl(<<"b","o","x","-","s","h","a","d","o","w">>, <<"n","o","n","e">>, TRUE),
      Decl(<<"c","o","l","o","r">>, <<"#","a","b","c","d","e","f","0","1","2","3">>, TRUE),
      Decl(<<"b","o","r","d","e","r","-","r","a","d","i","u","s">>, <<"5","0","%">>, TRUE),
      Decl(<<"f","i","l","l">>, <<"#","1","2","3","4","5","6">>, TRUE)>>

\* the first n declarations of the style sheet, repeated when n exceeds its length
Declarations(n) == [i \in 1..n |-> StyleSheet[((i - 1) % Len(StyleSheet)) + 1]]

CandidateStems ==
    {<<"m","y","-","w","i","d","g","e","t">>, <<"m","y","_","w","i","d","g","e","t">>, <<"M","y","W","i","d","g","e","t">>, <<"M","y","-","W","i","d","g","e","t">>, <<"m","y","-","w","i","d","g","e","t","_","v","2">>}
CandidateSuffixes == {<<".","t","s","x">>, <<".","j","s","x">>}
CandidateMarks ==
    {{}, {"interface Props", "export default"}, {"type Props"}}
CandidateImports == {<<<<"@","/","l","i","b","/","a","p","i">>>>, <<<<".","/","u","t","i","l">>, <<"r","e","a","c","t">>>>}

\* further candidate texts: spacing only; values after property names and in
\* notations that only one of the two scripts looks for; a colour used twice; a
\* declaration that no semicolon ends comes last in its text
VariantSheets ==
    {<<Decl(<<"p","a","d","d","i","n","g">>, <<"4","p","x">>, TRUE),
       Decl(<<"m","a","r","g","i","n">>, <<"0"," ","a","u","t","o">>, TRUE),
       Decl(<<"g","a","p">>, <<"8","p","x">>, TRUE)>>,
     <<Decl(<<"f","i","l","l">>, <<"#","1","2","3","4","5","6">>, TRUE),
       Decl(<<"s","t","r","o","k","e">>, <<"h","s","l","(","0",",","0","%",",","5","0","%",")">>, TRUE),
       Decl(<<"t","e","x","t","-","s","h","a","d","o","w">>, <<"0"," ","0"," ","1","p","x"," ","#","0","0","0">>, TRUE),
       Decl(<<"b","o","r","d","e","r","-","r","a","d","i","u","s">>, <<"5","0","%">>, TRUE),
       Decl(<<"r","o","u","n","d","e","d">>, <<"6","p","x">>, TRUE)>>,
     <<Decl(<<"b","o","r","d","e","r">>, <<"#","c","c","c","c","c","c">>, TRUE),
       Decl(<<"b","o","r","d","e","r","-","r","a","d","i","u","s">>, <<"6","p","x">>, FALSE)>>,
     <<Decl(<<"c","o","l","o","r">>, <<"#","9","9","9">>, TRUE),
       Decl(<<"b","a","c","k","g","r","o","u","n","d">>, <<"#","9","9","9">>, TRUE),
       Decl(<<"b","o","r","d","e","r","-","c","o","l","o","r">>, <<"#","3","3","6","6","9","9">>, TRUE),
       Decl(<<"b","o","r","d","e","r","-","r","a","d","i","u","s">>, <<"6","p","x">>, TRUE),
       Decl(<<"b","o","r","d","e","r","-","r","a","d","i","u","s">>, <<"6","p","x">>, TRUE),
       Decl(<<"p","a","d","d","i","n","g">>, <<"2","p","x">>, TRUE)>>}

CandidateInputs ==
    {[path |-> <<"s","r","c","/">> \o stem \o suffix,
      content |-> Text(Declarations(n), marks, imports)] :
        stem \in CandidateStems, suffix \in CandidateSuffixes,
        n \in 0..MaxDecls, marks \in CandidateMarks, imports \in CandidateImports}
    \cup {[path |-> <<"s","r","c","/","M","y","W","i","d","g","e","t",".","t","s","x">>,
           content |-> Text(sheet, {}, <<<<"@","/","l","i","b","/","a","p","i">>>>)] : sheet \in VariantSheets}


MissingPath == <<"s","r","c","/","G","o","n","e",".","t","s","x">>
NoResult == [pending |-> TRUE]

IdleCheck == patterns = <<>> /\ disk = <<>> /\ result = NoResult /\ ran = {}
IdleRender == data = <<>> /\ now = 0 /\ written = <<>>
IdleAnalyze == tree = <<>> /\ pc = "idle" /\ analysis = <<>>

InitCheck ==
    /\ patterns \in PatternInputs
    /\ disk \in CandidateInputs
    /\ result = NoResult
    /\ ran = {}
    /\ IdleRender /\ IdleAnalyze

NextCheck == \E component_path \in {disk.path, MissingPath} : check_component(component_path)

SpecCheck == InitCheck /\ [][NextCheck]_vars

---------------------------------------------------------------------------
(* Inputs of the renderer: the analysis JSON on disk.                      *)


\* n tokens of one category in sorted order
Tokens(prefix, n) == [i \in 1..n |-> prefix \o ToString(100 + i)]

TokenCounts(shown) == {0, 3, shown, shown + 1, shown + MaxMore}

RenderTokenInputs ==
    {[colors |-> Tokens("--color-", c), shadows |-> Tokens("--shadow-", s),
      border_radius |-> Tokens("--radius-", r), spacing |-> Tokens("--spacing-", p),
      font_families |-> <<>>, font_sizes |-> <<>>, z_index |-> <<>>] :
        c \in TokenCounts(ColorsShown), s \in TokenCounts(ShadowsShown),
        r \in TokenCounts(RadiusShown), p \in TokenCounts(SpacingShown)}

Paths(prefix, n) == [i \in 1..n |-> prefix \o ToString(i)]

\* n sampled components for the renderer, with the four flags it counts
RenderSamples(n, kt, kp, kh, kd) ==
    [i \in 1..n |-> [has_typescript |-> i <= kt, has_props_interface |-> i <= kp,
                     uses_hooks |-> i <= kh, exports_default |-> i <= kd]]

Targets(prefix, n) == [i \in 1..n |-> prefix \o ToString(i)]

RenderSectionInputs ==
    {[folder_structure |-> <<>>,
      component_patterns |-> <<>>,
      naming_conventions |-> [files |-> <<>>],
      import_patterns |-> [absolute |-> <<>>, relative |-> <<>>, alias |-> <<>>]],
     [folder_structure |-> <<<<"components", Paths("src/components/c", PathsShown + 1)>>,
                             <<"hooks", Paths("src/hooks/h", 1)>>>>,
      component_patterns |-> RenderSamples(8, 1, 3, 5, 8),
      naming_conventions |-> [files |-> <<"kebab-case">>, most_common_file |-> "kebab-case"],
      import_patterns |-> [absolute |-> Targets("pkg", 1), relative |-> Targets("./r", 1),
                           alias |-> Targets("@/a", 2)]],
     [folder_structure |-> <<<<"styles", Paths("src/styles/s", PathsShown)>>>>,
      component_patterns |-> RenderSamples(3, 2, 1, 0, 3),
      naming_conventions |-> [files |-> <<"PascalCase">>, most_common_file |-> "PascalCase"],
      import_patterns |-> [absolute |-> <<>>, relative |-> Targets("./r", 1),
                           alias |-> Targets("@/a", 1)]],
     [folder_structure |-> <<>>,
      component_patterns |-> RenderSamples(1, 0, 0, 0, 0),
      naming_conventions |-> [files |-> <<"lowercase">>, most_common_file |-> "lowercase"],
      import_patterns |-> [absolute |-> Targets("pkg", 2), relative |-> Targets("./r", 3),
                           alias |-> <<>>]]}

ReportInputs ==
    {[design_tokens |-> t,
      folder_structure |-> s.folder_structure,
      component_patterns |-> s.component_patterns,
      naming_conventions |-> s.naming_conventions,
      import_patterns |-> s.import_patterns,
      css_patterns |-> <<>>] : t \in RenderTokenInputs, s \in RenderSectionInputs}

\* no output file given, or an explicit one
OutputFileInputs == {<<>>, <<"d","o","c","s","/","p","a","t","t","e","r","n","s",".","m","d">>}

InitRender ==
    /\ data \in ReportInputs
    /\ now = 0
    /\ written = <<>>
    /\ IdleCheck /\ IdleAnalyze

NextRender ==
    \/ Tick
    \/ \E output_file \in OutputFileInputs : generate_markdown_report(AnalysisFile, output_file)

SpecRender == InitRender /\ [][NextRender]_vars

---------------------------------------------------------------------------
(* Inputs of the analyzer: project trees of up to MaxFiles files.          *)


File(path, decls, marks, imports, readable) ==
    [path |-> path, content |-> Text(decls, marks, imports), readable |-> readable]

FilePool ==
    {File(<<"s","r","c","/","s","t","y","l","e","s","/","t","h","e","m","e",".","c","s","s">>,
          <<Decl(<<"-","-","p","r","i","m","a","r","y","-","c","o","l","o","r">>, <<"#","3","3","6","6","9","9">>, TRUE),
            Decl(<<"-","-","c","a","r","d","-","s","h","a","d","o","w">>, <<"0"," ","1","p","x"," ","2","p","x"," ","#","0","0","0">>, TRUE),
            Decl(<<"-","-","r","a","d","i","u","s","-","l","g">>, <<"8","p","x">>, TRUE),
            Decl(<<"-","-","d","e","p","t","h">>, <<"2">>, TRUE)>>, {}, <<>>, TRUE),
     File(<<"s","r","c","/","s","t","y","l","e","s","/","d","a","r","k",".","c","s","s">>,
          <<Decl(<<"-","-","c","a","r","d","-","s","h","a","d","o","w">>, <<"0"," ","0"," ","1","p","x"," ","v","a","r","(","-","-","b","o","r","d","e","r",")">>, TRUE),
            Decl(<<"-","-","g","a","p","-","s","m">>, <<"4","p","x">>, TRUE),
            Decl(<<"p","a","d","d","i","n","g">>, <<"4","p","x">>, TRUE)>>, {}, <<>>, TRUE),
     File(<<"d","i","s","t","/","b","u","n","d","l","e",".","c","s","s">>,
          <<Decl(<<"c","o","l","o","r">>, <<"#","f","f","f">>, TRUE), Decl(<<"b","o","x","-","s","h","a","d","o","w">>, <<"n","o","n","e">>, TRUE)>>,
          {}, <<>>, TRUE),
     File(<<"n","o","d","e","_","m","o","d","u","l","e","s","/","u","i","/","i","n","d","e","x",".","c","s","s">>,
          <<Decl(<<"c","o","l","o","r">>, <<"#","0","0","0","0","0","0">>, TRUE)>>, {}, <<>>, TRUE),
     File(<<".","n","e","x","t","/","s","t","a","t","i","c","/","a","p","p",".","c","s","s">>,
          <<Decl(<<"b","o","r","d","e","r","-","r","a","d","i","u","s">>, <<"2","p","x">>, TRUE)>>, {}, <<>>, TRUE),
     File(<<".","g","i","t","h","u","b","/","c","i",".","j","s">>, <<>>, {}, <<<<".","/","s","t","e","p","s">>>>, TRUE),
     File(<<"s","r","c","/","c","o","m","p","o","n","e","n","t","s","/","m","y","-","c","o","m","p","o","n","e","n","t",".","t","s","x">>,
          <<Decl(<<"b","a","c","k","g","r","o","u","n","d">>, <<"r","g","b","a","(","0",",","0",",","0",",","0",".","5",")">>, FALSE)>>,
          {"interface Props", "export default", "useState"},
          <<<<"@","/","l","i","b","/","a","p","i">>, <<"r","e","a","c","t">>>>, TRUE),
     File(<<"s","r","c","/","c","o","m","p","o","n","e","n","t","s","/","M","y","C","o","m","p","o","n","e","n","t",".","t","s","x">>,
          <<>>, {"type Props", "export const", "children"}, <<<<".","/","m","y","-","c","o","m","p","o","n","e","n","t">>>>, TRUE),
     File(<<"s","r","c","/","h","o","o","k","s","/","m","y","C","o","m","p","o","n","e","n","t",".","t","s">>, <<>>, {"export const"}, <<<<".",".","/","l","i","b","/","a","p","i">>>>, TRUE),
     File(<<"s","r","c","/","u","t","i","l","s","/","m","y","_","c","o","m","p","o","n","e","n","t",".","j","s">>,
          <<Decl(<<"f","i","l","l">>, <<"h","s","l","(","0",",","0","%",",","5","0","%",")">>, TRUE)>>, {}, <<>>, TRUE),
     File(<<"s","r","c","/","a","s","s","e","t","s","/","a",".","j","s","x">>,
          <<Decl(<<"c","o","l","o","r">>, <<"#","a","b","c">>, TRUE)>>, {"export default"}, <<<<".","/","l","o","g","o",".","s","v","g">>>>, FALSE)}

\* the lists of n distinct files of the pool
RECURSIVE Trees(_)
Trees(n) ==
    IF n = 0 THEN {<<>>}
    ELSE {Append(t, f) : t \in Trees(n - 1), f \in FilePool} 

\* a number below 100 as two digits
TwoDigits(i) == <<Ascii[Ord("0") + (i \div 10)], Ascii[Ord("0") + (i % 10)]>>

\* a script file that imports one module of its own
ModuleFile(i, ext) ==
    File(<<"s","r","c","/","l","i","b","/","m">> \o TwoDigits(i) \o ext, <<>>, {}, <<<<".","/","d","e","p">> \o TwoDigits(i)>>, TRUE)

\* a .ts files followed by b .js files
WideTree(a, b) ==
    [i \in 1..a |-> ModuleFile(i, <<".","t","s">>)] \o [i \in 1..b |-> ModuleFile(a + i, <<".","j","s">>)]

\* trees with fewer and with more files of one extension than the import scan reads
WideTrees == {WideTree(a, b) : a \in {ImportLimit - 1, ImportLimit + 1}, b \in {0, 2}}

TreeInputs ==
    {t \in UNION {Trees(n) : n \in 0..MaxFiles} :
        \A i, j \in DOMAIN t : i # j => t[i] # t[j]}
    \cup WideTrees

InitAnalyze ==
    /\ tree \in TreeInputs
    /\ pc = "folder_structure"
    /\ analysis = InitialPatterns
    /\ IdleCheck /\ IdleRender

NextAnalyze ==
    \/ _analyze_folder_structure
    \/ _extract_design_tokens
    \/ _analyze_component_patterns
    \/ _analyze_naming_conventions
    \/ _analyze_import_patterns
    \/ _generate_report

SpecAnalyze == InitAnalyze /\ [][NextAnalyze]_vars

---------------------------------------------------------------------------
(* Properties of the compliance checker, checked under SpecCheck.          *)

ReportKeys == {"file", "compliant", "issues", "warnings", "suggestions", "score"}
AllChecks == {"naming", "design_tokens", "component_structure", "imports"}
IsReport == DOMAIN result = ReportKeys

\* C1: the score of every report check_component returns is
\* max(0, 100 - 20*i - 10*w - 5*s) for its i issues, w warnings and s suggestions,
\* hence an integer of 0..100; 1 issue, 2 warnings and 1 suggestion score 55.
C1_ScoreIsFlooredWeightedSum ==
    IsReport =>
        LET i == Len(result.issues)
            w == Len(result.warnings)
            s == Len(result.suggestions)
            raw == 100 - 20 * i - 10 * w - 5 * s
        IN  /\ result.score = (IF raw > 0 THEN raw ELSE 0)
            /\ result.score \in 0..100
            /\ (i = 1 /\ w = 2 /\ s = 1) => result.score = 55

C1_OneIssueTwoWarningsOneSuggestion ==
    /\ IsReport
    /\ Len(result.issues) = 1 /\ Len(result.warnings) = 2 /\ Len(result.suggestions) = 1
    /\ result.score = 55

\* C2: in every report for an existing file the compliant flag is true exactly
\* when the issues list is empty, whatever the warnings and suggestions are.
C2_CompliantIffNoIssues ==
    IsReport => (result.compliant <=> result.issues = <<>>)

C2_CompliantWithWarningsAndSuggestions ==
    /\ IsReport
    /\ result.compliant
    /\ Len(result.warnings) > 0 /\ Len(result.suggestions) > 0

\* C3: check_component on a path that does not exist returns a result that
\* carries only an error message, runs none of the four checks and leaves the
\* loaded patterns alone; a check of an existing file after it runs all four
\* checks and returns a full report of that file.
C3_MissingFileGivesErrorResult ==
    [][\A p \in {disk.path, MissingPath} :
          check_component(p) =>
              IF Exists(p)
              THEN /\ DOMAIN result' = ReportKeys
                   /\ result'.file = p
                   /\ ran' = AllChecks
              ELSE /\ DOMAIN result' = {"error"}
                   /\ result'.error = "File not found"
                   /\ ran' = {}
                   /\ patterns' = patterns /\ disk' = disk]_vars

C3_ErrorResultReturned ==
    /\ DOMAIN result = {"error"}
    /\ result.error = "File not found"
    /\ ran = {}

\* the class of a file name stem by the precedence hyphen, underscore, first
\* character uppercase
C4_Classification(filename) ==
    IF \E k \in DOMAIN filename : filename[k] = "-" THEN "kebab-case"
    ELSE IF \E k \in DOMAIN filename : filename[k] = "_" THEN "snake_case"
    ELSE IF filename[1] \in Range(UpperChars) THEN "PascalCase"
    ELSE "unclassified"

\* C4: the report has exactly one issue when the verdict of the project is
\* kebab-case, PascalCase or snake_case and the class of the candidate's stem
\* differs from it, and no issue in every other case.
C4_IssueIffClassDiffersFromVerdict ==
    IsReport =>
        LET verdict == Get(patterns.naming_conventions, "most_common_file", None)
            class == C4_Classification(PathStem(result.file))
        IN  IF verdict \in {"kebab-case", "PascalCase", "snake_case"} /\ class # verdict
            THEN Len(result.issues) = 1 /\ ~result.compliant
            ELSE result.issues = <<>>

---------------------------------------------------------------------------
(* Properties of the renderer, checked under SpecRender.                   *)

\* C5 as stated: any two renderings of the report have the same text.
C5_SameTextAtAnyTwoTimes ==
    \A p, q \in DOMAIN written : written[p].md_content = written[q].md_content

\* C5: two renderings of the report are the same text except for the one line
\* with the time stamp, and the same text throughout when they were made within
\* the same second of the clock.
C5_SameTextExceptTimeStamp ==
    \A p, q \in DOMAIN written :
        LET a == written[p]
            b == written[q]
        IN  /\ Len(a.md_content) = Len(b.md_content)
            /\ \A k \in DOMAIN a.md_content :
                  a.md_content[k] # b.md_content[k]
                      => /\ a.md_content[k] = "\n**Generated:** "
                                \o ToString(a.at \div TicksPerSecond) \o "\n"
                         /\ b.md_content[k] = "\n**Generated:** "
                                \o ToString(b.at \div TicksPerSecond) \o "\n"
            /\ a.at \div TicksPerSecond = b.at \div TicksPerSecond
                  => a.md_content = b.md_content

C5_TwoRenderingsWithinOneSecond ==
    \E p, q \in DOMAIN written :
        /\ p # q
        /\ written[p].at # written[q].at
        /\ written[p].at \div TicksPerSecond = written[q].at \div TicksPerSecond
        /\ written[p].md_content = written[q].md_content

\* the limits of the four categories the renderer shows
SectionLimits ==
    {<<"colors", "### Colors", ColorsShown>>,
     <<"shadows", "### Box Shadows", ShadowsShown>>,
     <<"border_radius", "### Border Radius", RadiusShown>>,
     <<"spacing", "### Spacing", SpacingShown>>}

\* the block of category sec is in the text md: title, opening fence, the first
\* min(n, L) entries in stored order, the line of the remainder exactly when
\* n > L, closing fence; no title when the category is empty
C6_SectionIn(md, sec) ==
    LET entries == data.design_tokens[sec[1]]
        n == Len(entries)
        L == sec[3]
        m == IF n < L THEN n ELSE L
        at == {k \in DOMAIN md : md[k] = sec[2]}
    IN  IF n = 0 THEN at = {}
        ELSE /\ Cardinality(at) = 1
             /\ \A k \in at :
                   /\ k + m + 2 <= Len(md)
                   /\ md[k + 1] = "'''css"
                   /\ \A j \in 1..m : md[k + 1 + j] = entries[j]
                   /\ IF n > L
                      THEN /\ k + m + 3 <= Len(md)
                           /\ md[k + m + 2] = "... and " \o ToString(n - L) \o " more"
                           /\ md[k + m + 3] = "'''\n"
                      ELSE md[k + m + 2] = "'''\n"

\* C6: every rendered text has, for each of the four token categories with n
\* entries and limit L, exactly the first min(n, L) entries in stored order,
\* followed by "... and (n - L) more" if and only if n > L, and no section for
\* a category with n = 0.
C6_SectionsCutAtLimit ==
    \A p \in DOMAIN written : \A sec \in SectionLimits :
        C6_SectionIn(written[p].md_content, sec)

C6_ColorsBeyondLimitAndThreeShadows ==
    \E p \in DOMAIN written :
        /\ Len(data.design_tokens.colors) = ColorsShown + MaxMore
        /\ Len(data.design_tokens.shadows) = 3
        /\ Len(data.design_tokens.border_radius) = RadiusShown
        /\ Len(data.design_tokens.spacing) = 0
        /\ \E k \in DOMAIN written[p].md_content :
              written[p].md_content[k] = "... and " \o ToString(MaxMore) \o " more"

---------------------------------------------------------------------------
(* Properties of the analyzer, checked under SpecAnalyze.                  *)

\* the token sets are extracted and not yet turned into sorted lists
TokensExtracted ==
    pc \in {"component_patterns", "naming_conventions", "import_patterns", "generate_report"}

\* the custom property declarations of the files the extraction reads
ScannedVars ==
    {d \in UNION {Range(f.content.decls) :
                     f \in {g \in Range(TokenFiles(tree)) : g.readable}} : IsCssVar(d)}

\* C7: two custom property declarations with the same name are stored under the
\* same category, or both dropped, whatever their values are.
C7_SameNameSameCategory ==
    TokensExtracted =>
        \A d1, d2 \in ScannedVars :
            d1.prop = d2.prop =>
                \A c \in TokenCategories :
                    StoredVar(CssVarText(d1), Strip(d1.value)) \in analysis.design_tokens[c]
                    <=> StoredVar(CssVarText(d2), Strip(d2.value)) \in analysis.design_tokens[c]

\* a string with a letter in it and no uppercase letter
C8_IsLowercase(s) ==
    /\ \E k \in DOMAIN s : s[k] \in Range(LowerChars)
    /\ \A k \in DOMAIN s : s[k] \notin Range(UpperChars)

\* the label of a stem by the precedence hyphen, underscore, first character
\* uppercase, all lowercase; <<>> when none applies
C8_Labels(filename) ==
    IF \E k \in DOMAIN filename : filename[k] = "-" THEN <<"kebab-case">>
    ELSE IF \E k \in DOMAIN filename : filename[k] = "_" THEN <<"snake_case">>
    ELSE IF filename[1] \in Range(UpperChars) THEN <<"PascalCase">>
    ELSE IF filename[1] \in Range(LowerChars) /\ C8_IsLowercase(Tail(filename))
    THEN <<"lowercase">>
    ELSE <<>>

NamingDone == pc \in {"import_patterns", "generate_report", "done"}

\* C8: the recorded list is, in the order of the scan, the label of each scanned
\* stem by the precedence kebab-case, snake_case, PascalCase, lowercase, with
\* nothing recorded for a stem of no class; so it is never longer than the list
\* of scanned files, and my-component, my_component, MyComponent, myComponent
\* give kebab-case, snake_case, PascalCase and no record.
C8_LabelsByPrecedence ==
    /\ NamingDone =>
          LET scanned == NamingFiles(tree)
              labels(f) == C8_Labels(PathStem(f.path))
          IN  /\ analysis.naming_conventions.files = Flatten(MapSeq(scanned, labels))
              /\ Len(analysis.naming_conventions.files) <= Len(scanned)
    /\ NamingLabel(<<"m","y","-","c","o","m","p","o","n","e","n","t">>) = "kebab-case"
    /\ NamingLabel(<<"m","y","_","c","o","m","p","o","n","e","n","t">>) = "snake_case"
    /\ NamingLabel(<<"M","y","C","o","m","p","o","n","e","n","t">>) = "PascalCase"
    /\ NamingLabel(<<"m","y","C","o","m","p","o","n","e","n","t">>) = ""

C8_MixedCaseStemLeftOut ==
    /\ NamingDone
    /\ \E k \in DOMAIN tree : PathStem(tree[k].path) = <<"m","y","C","o","m","p","o","n","e","n","t">>
    /\ \E k \in DOMAIN tree : PathStem(tree[k].path) = <<"m","y","_","c","o","m","p","o","n","e","n","t">>
    /\ Len(NamingFiles(tree)) = 3
    /\ Len(analysis.naming_conventions.files) = 2

\* the label of maximal count that comes first in the recorded list
FirstEncountered(list) ==
    LET best == {l \in Range(list) : \A m \in Range(list) : Count(list, m) <= Count(list, l)}
        first(l) == CHOOSE k \in DOMAIN list : list[k] = l /\ \A j \in 1..(k - 1) : list[j] # l
    IN  CHOOSE l \in best : \A m \in best : first(l) <= first(m)

HasVerdict == "most_common_file" \in DOMAIN analysis.naming_conventions

\* C9 as stated: the verdict is the label of maximal count first encountered in
\* the recorded list, and is absent exactly when the list is empty.
C9_VerdictIsFirstEncountered ==
    pc = "done" =>
        /\ HasVerdict <=> analysis.naming_conventions.files # <<>>
        /\ HasVerdict => analysis.naming_conventions.most_common_file
                            = FirstEncountered(analysis.naming_conventions.files)

\* C9: the verdict is a label of the recorded list whose count in it is maximal,
\* the one label of maximal count when there is only one, and is absent exactly
\* when the list is empty.
C9_VerdictHasMaximalCount ==
    pc = "done" =>
        LET list == analysis.naming_conventions.files
        IN  /\ HasVerdict <=> list # <<>>
            /\ HasVerdict =>
                  LET verdict == analysis.naming_conventions.most_common_file
                  IN  /\ verdict \in Range(list)
                      /\ \A m \in Range(list) : Count(list, m) <= Count(list, verdict)

C9_TieNotWonByFirst ==
    /\ pc = "done"
    /\ HasVerdict
    /\ Len(analysis.naming_conventions.files) = 3
    /\ analysis.naming_conventions.most_common_file
          # FirstEncountered(analysis.naming_conventions.files)

\* the files outside the directories of the skip list
OutsideSkipped(files) ==
    LET outside(f) == \A k \in FolderSkips : ~Contains(f.path, k)
    IN  SelectSeq(files, outside)

\* C10: no token of any category comes from a file under node_modules, .git,
\* dist, build or .next: the extracted tokens are those of the other files.
C10_NoTokenFromSkippedDirs ==
    TokensExtracted =>
        \A c \in TokenCategories :
            analysis.design_tokens[c]
                \subseteq ExtractFiles(EmptyTokens, OutsideSkipped(TokenFiles(tree)))[c]

\* the import scan has run
ImportsDone == pc \in {"generate_report", "done"}

\* the files of the tree with an import target in one of the three buckets
ImportSources ==
    {k \in DOMAIN tree :
        \E b \in {"alias", "relative", "absolute"} :
            \E j \in DOMAIN analysis.import_patterns[b] :
                \E i \in DOMAIN tree[k].content.imports :
                    tree[k].content.imports[i] = analysis.import_patterns[b][j]}

\* file k of the tree is among the first ImportLimit files of extension ext
AmongFirstOf(k, ext) ==
    /\ EndsWith(tree[k].path, ext)
    /\ Cardinality({j \in 1..k : EndsWith(tree[j].path, ext)}) <= ImportLimit

\* C11 as stated: the import targets in the buckets come from at most 20 files of
\* the tree in total.
C11_AtMostTwentyFilesInTotal ==
    ImportsDone => Cardinality(ImportSources) <= ImportLimit

\* C11: the import targets in the buckets come from the first 20 files of each of
\* the extensions .ts, .tsx, .js and .jsx taken separately, hence from at most 80
\* files; every readable file among them outside node_modules contributes.
C11_TwentyFilesPerExtension ==
    ImportsDone =>
        /\ \A k \in ImportSources :
              \E ext \in {<<".","t","s">>, <<".","t","s","x">>, <<".","j","s">>, <<".","j","s","x">>} : AmongFirstOf(k, ext)
        /\ \A k \in DOMAIN tree :
              (/\ \E ext \in {<<".","t","s">>, <<".","t","s","x">>, <<".","j","s">>, <<".","j","s","x">>} : AmongFirstOf(k, ext)
               /\ tree[k].readable
               /\ tree[k].content.imports # <<>>
               /\ ~Contains(FullPath(tree[k]), <<"n","o","d","e","_","m","o","d","u","l","e","s">>))
                  => k \in ImportSources
        /\ Cardinality(ImportSources) <= 4 * ImportLimit

C11_MoreThanTwentyFilesRead ==
    /\ ImportsDone
    /\ Cardinality(ImportSources) = ImportLimit + 2
    /\ \E k \in DOMAIN tree : EndsWith(tree[k].path, <<".","t","s">>) /\ k \notin ImportSources

---------------------------------------------------------------------------
(* Properties of the hardcoded-value check, checked under SpecCheck.       *)

ColorMsg == "Hardcoded color - consider using design token"
ShadowMsg == "Custom box-shadow detected - consider using design token"
RadiusMsg == "Custom border-radius - consider using design token"

\* a token without its `name:` prefix
C12_AfterPrefix(t) ==
    LET colons == {i \in DOMAIN t : t[i] = ":"}
        last == CHOOSE i \in colons : \A j \in colons : j <= i
    IN  IF colons = {} THEN t ELSE Strip(SubSeq(t, last + 1, Len(t)))

C12_Known(tokens) == {C12_AfterPrefix(tokens[k]) : k \in DOMAIN tokens}

\* the values of the warnings of the report that carry message msg, in order
WarnedValues(msg) ==
    LET with(w) == w.msg = msg
        value(w) == w.value
    IN  MapSeq(SelectSeq(result.warnings, with), value)

\* C12: the warnings of a report are one per occurrence of a detected colour
\* that is not a known colour token (tokens compared without their name prefix),
\* one in all when a shadow is detected, and one per occurrence of a detected
\* pixel radius that is not a known radius token; nothing else warns, spacing
\* declarations in particular.
C12_WarningsPerDetectedValue ==
    IsReport =>
        LET content == disk.content
            known_colors == C12_Known(Get(patterns.design_tokens, "colors", <<>>))
            known_radii == C12_Known(Get(patterns.design_tokens, "border_radius", <<>>))
            new_color(c) == c \notin known_colors
            new_radius(r) == r \notin known_radii
            new_colors == SelectSeq(HardcodedColors(content), new_color)
            new_radii == SelectSeq(HardcodedRadius(content), new_radius)
            shadows == IF HardcodedShadows(content) = <<>> THEN 0 ELSE 1
        IN  /\ WarnedValues(ColorMsg) = new_colors
            /\ Len(WarnedValues(ShadowMsg)) = shadows
            /\ WarnedValues(RadiusMsg) = new_radii
            /\ Len(result.warnings) = Len(new_colors) + shadows + Len(new_radii)
            /\ (\A k \in DOMAIN content.decls :
                    content.decls[k].prop \in {<<"p","a","d","d","i","n","g">>, <<"m","a","r","g","i","n">>, <<"g","a","p">>})
                  => result.warnings = <<>>

C12_TwoShadowsOneWarningKnownColourSkipped ==
    /\ IsReport
    /\ Len(HardcodedShadows(disk.content)) = 2
    /\ Len(WarnedValues(ShadowMsg)) = 1
    /\ Len(WarnedValues(ColorMsg)) = 3 /\ Len(HardcodedColors(disk.content)) = 4
    /\ Len(WarnedValues(RadiusMsg)) = 1 /\ Len(HardcodedRadius(disk.content)) = 2
    /\ Len(result.warnings) = 5

\* C13: the checker examines exactly what the extraction patterns match in the
\* candidate text: every colour, shadow and radius they match is warned about
\* unless it is a known token, and every warning is about a value they match.
C13_CheckerMatchesWhatExtractorMatches ==
    IsReport =>
        LET matched == InlineTokens(disk.content)
            known_colors == C12_Known(Get(patterns.design_tokens, "colors", <<>>))
            known_radii == C12_Known(Get(patterns.design_tokens, "border_radius", <<>>))
        IN  /\ \A c \in matched["colors"] :
                  c \notin known_colors => c \in Range(WarnedValues(ColorMsg))
            /\ matched["shadows"] # {} => Len(WarnedValues(ShadowMsg)) = 1
            /\ \A r \in matched["border_radius"] :
                  r \notin known_radii => r \in Range(WarnedValues(RadiusMsg))
            /\ Range(WarnedValues(ColorMsg)) \subseteq matched["colors"]
            /\ Len(WarnedValues(ShadowMsg)) > 0 => matched["shadows"] # {}
            /\ Range(WarnedValues(RadiusMsg)) \subseteq matched["border_radius"]

---------------------------------------------------------------------------
(* Properties of the structure check, checked under SpecCheck.             *)

TypedMsg == "Most components use TypeScript - consider using .tsx/.ts"
PropsMsg == "Most components define Props interface/type - consider adding one"
DefaultMsg == "Most components use default export"

\* how often the report suggests msg
Suggested(msg) == Cardinality({k \in DOMAIN result.suggestions : result.suggestions[k] = msg})

\* the samples of the loaded report with the flag set
SamplesWith(flag) ==
    Cardinality({k \in DOMAIN patterns.component_patterns :
                    patterns.component_patterns[k][flag]})

\* more than 0.7 of the n >= 1 samples have the flag
C14_Above(flag) ==
    /\ Len(patterns.component_patterns) >= 1
    /\ 10 * SamplesWith(flag) > 7 * Len(patterns.component_patterns)

\* C14: with no sample there is no structural suggestion; with n >= 1 samples
\* each of the three suggestions is made, once, if and only if more than 0.7 of
\* the samples have the attribute and the candidate lacks it, so 7 of 10 gives
\* none, and the three are decided independently of one another.
C14_SuggestionIffAboveAndLacking ==
    IsReport =>
        LET marks == disk.content.marks
            typed == PathSuffix(disk.path) \in {<<".","t","s","x">>, <<".","t","s">>}
            props == "interface Props" \in marks \/ "type Props" \in marks
            default == "export default" \in marks
        IN  /\ Suggested(TypedMsg) = (IF C14_Above("has_typescript") /\ ~typed THEN 1 ELSE 0)
            /\ Suggested(PropsMsg) = (IF C14_Above("has_props_interface") /\ ~props THEN 1 ELSE 0)
            /\ Suggested(DefaultMsg) = (IF C14_Above("exports_default") /\ ~default THEN 1 ELSE 0)
            /\ Len(patterns.component_patterns) = 0
                  => Suggested(TypedMsg) + Suggested(PropsMsg) + Suggested(DefaultMsg) = 0
            /\ (Len(patterns.component_patterns) = 10 /\ SamplesWith("has_props_interface") = 7)
                  => Suggested(PropsMsg) = 0

C14_OnlyTypedSuggestedAtSevenOfTen ==
    /\ IsReport
    /\ Len(patterns.component_patterns) = 10
    /\ SamplesWith("has_typescript") = 8
    /\ SamplesWith("has_props_interface") = 7
    /\ SamplesWith("exports_default") = 0
    /\ disk.content.marks = {}
    /\ Suggested(TypedMsg) = 1 /\ Suggested(PropsMsg) = 0 /\ Suggested(DefaultMsg) = 0

====
